---- MODULE Spec2Model ----
(***************************************************************************)
(* Model of the kitchen ticket service: the HTTP handler KitchenServer     *)
(* (server.go), the two KitchenStore implementations of the repository     *)
(* (InMemoryKitchenStore, which main wires in, and the tests'              *)
(* StubKitchenStore) and the encoding/json conversions the handler and its *)
(* tests go through.                                                       *)
(***************************************************************************)
EXTENDS Integers, Sequences, FiniteSets, TLC

VARIABLES
    impl,      \* which KitchenStore the server was constructed with
    tickets,   \* StubKitchenStore.tickets (InMemoryKitchenStore has no field)
    req,       \* the last request served
    resp,      \* what the handler wrote to its ResponseWriter for req
    calls,     \* the store operations the handler invoked for req
    assigned,  \* the IDs StoreTicket has returned so far, in order
    before     \* tickets as it was when req arrived

vars == <<impl, tickets, req, resp, calls, assigned, before>>

(***************************************************************************)
(* Bounds of the model.                                                    *)
(***************************************************************************)
\* successful StoreTicket calls in one run
MaxPosts == 2
\* elements of a posted Items array
MaxItems == 1
\* path tokens of a GET request
MaxPathLen == 2

(***************************************************************************)
(* Program constants.                                                      *)
(***************************************************************************)
STATUS_PENDING == 0
STATUS_ACCEPTED == 1
STATUS_COMPLETED == 2

StatusBadRequest == 400
StatusNotFound == 404
StatusOK == 200
StatusAccepted == 202

\* the ID InMemoryKitchenStore.StoreTicket returns for every ticket
InMemoryID == 123

(***************************************************************************)
(* Go values.  A []string is nil or a (possibly empty) sequence: the two   *)
(* are different values for isTicketValid, for reflect.DeepEqual and for   *)
(* the JSON encoder.                                                       *)
(***************************************************************************)
NilSlice == [nil |-> TRUE, elems |-> <<>>]

Slice(s) == [nil |-> FALSE, elems |-> s]

Ticket(id, status, items) == [ID |-> id, Status |-> status, Items |-> items]

\* Ticket{} : the zero value
ZeroTicket == Ticket(0, 0, NilSlice)

CreateTicketResponse(id) == [ID |-> id]

(***************************************************************************)
(* JSON values.  Every value is a record of the same shape; t is the JSON  *)
(* type.  "frac" is a number literal that is no integer (1.5).             *)
(***************************************************************************)
JNull == [t |-> "null", n |-> 0, s |-> "", a |-> <<>>]

JNum(i) == [t |-> "num", n |-> i, s |-> "", a |-> <<>>]

JFrac == [t |-> "frac", n |-> 0, s |-> "", a |-> <<>>]

JStr(x) == [t |-> "str", n |-> 0, s |-> x, a |-> <<>>]

JArr(elems) == [t |-> "arr", n |-> 0, s |-> "", a |-> elems]

\* a JSON object: a function from its member names to their values
NoMembers == [k \in {} |-> JNull]

(***************************************************************************)
(* encoding/json, decoding side.                                           *)
(***************************************************************************)
\* The decoder matches a member name to a struct field exactly or, failing
\* that, case-insensitively.  "" stands for no field.
FieldOf(key) ==
    CASE key \in {"ID", "id"} -> "ID"
      [] key \in {"Status", "status"} -> "Status"
      [] key \in {"Items", "items"} -> "Items"
      [] OTHER -> ""

\* A JSON value stored into an int field: a number that is an integer sets
\* it, null leaves it alone, anything else is an UnmarshalTypeError.
DecodeInt(v, old) ==
    CASE v.t = "num" -> [val |-> v.n, err |-> FALSE]
      [] v.t = "null" -> [val |-> old, err |-> FALSE]
      [] OTHER -> [val |-> old, err |-> TRUE]

\* One array element stored into a string: a string sets it, null leaves the
\* zero value "", anything else is an UnmarshalTypeError.
DecodeString(v) ==
    CASE v.t = "str" -> [val |-> v.s, err |-> FALSE]
      [] v.t = "null" -> [val |-> "", err |-> FALSE]
      [] OTHER -> [val |-> "", err |-> TRUE]

\* A JSON value stored into a []string field: an array gives a non-nil slice
\* (also when it is empty), null sets the slice to nil.
DecodeStringSlice(v, old) ==
    CASE v.t = "arr" ->
           [val |-> Slice([i \in 1..Len(v.a) |-> DecodeString(v.a[i]).val]),
            err |-> \E i \in 1..Len(v.a) : DecodeString(v.a[i]).err]
      [] v.t = "null" -> [val |-> NilSlice, err |-> FALSE]
      [] OTHER -> [val |-> old, err |-> TRUE]

\* Decoder.Decode(&ticket) on a fresh Ticket{}.  body.syntax says whether the
\* first JSON value of the body is well formed; what follows that value
\* (body.trailing) is not read by a single Decode call.  strict is
\* DisallowUnknownFields.  Errors inside the object are saved and the rest of
\* the object is still decoded; Decode returns the saved error at the end.
\* The objects modelled carry at most one member per field of Ticket.
DecodeTicket(body, strict) ==
    IF ~body.syntax THEN [ticket |-> ZeroTicket, err |-> TRUE]
    ELSE IF body.top = "null" THEN [ticket |-> ZeroTicket, err |-> FALSE]
    ELSE IF body.top # "object" THEN [ticket |-> ZeroTicket, err |-> TRUE]
    ELSE
      LET m == body.members
          keys == DOMAIN m
          Has(f) == \E k \in keys : FieldOf(k) = f
          Val(f) == m[CHOOSE k \in keys : FieldOf(k) = f]
          id == IF Has("ID") THEN DecodeInt(Val("ID"), 0)
                ELSE [val |-> 0, err |-> FALSE]
          st == IF Has("Status") THEN DecodeInt(Val("Status"), 0)
                ELSE [val |-> 0, err |-> FALSE]
          it == IF Has("Items") THEN DecodeStringSlice(Val("Items"), NilSlice)
                ELSE [val |-> NilSlice, err |-> FALSE]
          unknown == \E k \in keys : FieldOf(k) = ""
      IN [ticket |-> Ticket(id.val, st.val, it.val),
          err |-> id.err \/ st.err \/ it.err \/ (strict /\ unknown)]

(***************************************************************************)
(* encoding/json, encoding side.                                           *)
(***************************************************************************)
\* A []string field: nil is written as null, a slice as an array of strings.
EncodeStringSlice(items) ==
    IF items.nil THEN JNull
    ELSE JArr([i \in 1..Len(items.elems) |-> JStr(items.elems[i])])

\* json.NewEncoder(w).Encode(ticket): an object with the three exported
\* fields under their Go names.
EncodeTicket(ticket) ==
    [syntax |-> TRUE, top |-> "object", trailing |-> FALSE,
     members |-> [k \in {"ID", "Status", "Items"} |->
                    CASE k = "ID" -> JNum(ticket.ID)
                      [] k = "Status" -> JNum(ticket.Status)
                      [] OTHER -> EncodeStringSlice(ticket.Items)]]

\* json.NewEncoder(w).Encode(CreateTicketResponse{ID: id})
EncodeCreateTicketResponse(r) ==
    [syntax |-> TRUE, top |-> "object", trailing |-> FALSE,
     members |-> [k \in {"ID"} |-> JNum(r.ID)]]

\* getTicketFromResponse (test helper): the response body decoded into a
\* fresh Ticket{} by a decoder that ignores unknown fields
getTicketFromResponse(body) == DecodeTicket(body, FALSE).ticket

\* assertTicketResponse (test helper): the response body decoded into a
\* fresh CreateTicketResponse{}; the ID it then holds
DecodeCreateTicketResponse(body) ==
    IF body.syntax /\ body.top = "object"
         /\ \E k \in DOMAIN body.members : FieldOf(k) = "ID"
    THEN DecodeInt(body.members[CHOOSE k \in DOMAIN body.members : FieldOf(k) = "ID"], 0).val
    ELSE 0

\* the body of a response the handler wrote no body to
NoBody ==
    [syntax |-> FALSE, top |-> "none", trailing |-> FALSE, members |-> NoMembers]

(***************************************************************************)
(* strconv and strings.  A path is a sequence of tokens; the token         *)
(* "/ticket/" stands for that substring, every other token for one byte.   *)
(***************************************************************************)
DigitChars == <<"0", "1", "2", "3", "4", "5", "6", "7", "8", "9">>

Digits == {DigitChars[i] : i \in 1..Len(DigitChars)}

DigitVal(c) == (CHOOSE i \in 1..Len(DigitChars) : DigitChars[i] = c) - 1

RECURSIVE Decimal(_)
Decimal(ds) ==
    IF ds = <<>> THEN 0
    ELSE 10 * Decimal(SubSeq(ds, 1, Len(ds) - 1)) + DigitVal(ds[Len(ds)])

\* strings.TrimPrefix(path, "/ticket/")
TrimPrefix(path) ==
    IF path # <<>> /\ Head(path) = "/ticket/" THEN Tail(path) ELSE path

\* strconv.Atoi: an optional sign, then one or more decimal digits.
Atoi(s) ==
    LET signed == s # <<>> /\ Head(s) \in {"+", "-"}
        ds == IF signed THEN Tail(s) ELSE s
        ok == ds # <<>> /\ \A i \in 1..Len(ds) : ds[i] \in Digits
    IN IF ~ok THEN [val |-> 0, err |-> TRUE]
       ELSE [val |-> IF signed /\ Head(s) = "-" THEN 0 - Decimal(ds) ELSE Decimal(ds),
             err |-> FALSE]

\* the decimal digits of n >= 0, as fmt's %d writes them
RECURSIVE FormatDigits(_)
FormatDigits(n) ==
    IF n < 10 THEN <<DigitChars[n + 1]>>
    ELSE Append(FormatDigits(n \div 10), DigitChars[(n % 10) + 1])

\* newGetTicketRequest: the path fmt.Sprintf("/ticket/%d", ticketID)
newGetTicketRequest(ticketID) ==
    <<"/ticket/">> \o (IF ticketID < 0 THEN <<"-">> \o FormatDigits(0 - ticketID)
                      ELSE FormatDigits(ticketID))

(***************************************************************************)
(* The KitchenStore implementations.  A store operation is given the       *)
(* store's tickets and returns its results and the tickets it leaves.      *)
(***************************************************************************)
\* StubKitchenStore.GetTicketByID: the first ticket with that ID
StubGetTicketByID(ts, ticketID) ==
    IF \E i \in 1..Len(ts) : ts[i].ID = ticketID
    THEN LET first == CHOOSE i \in 1..Len(ts) :
                        /\ ts[i].ID = ticketID
                        /\ \A j \in 1..(i - 1) : ts[j].ID # ticketID
         IN [ticket |-> ts[first], err |-> FALSE]
    ELSE [ticket |-> ZeroTicket, err |-> TRUE]

\* StubKitchenStore.StoreTicket: the ID is the number of tickets held
StubStoreTicket(ts, ticket) ==
    LET stored == [ticket EXCEPT !.ID = Len(ts)]
    IN [tickets |-> Append(ts, stored), id |-> stored.ID, err |-> FALSE]

\* InMemoryKitchenStore.GetTicketByID
InMemoryGetTicketByID(ts, ticketId) == [ticket |-> ZeroTicket, err |-> FALSE]

\* InMemoryKitchenStore.StoreTicket
InMemoryStoreTicket(ts, ticket) == [tickets |-> ts, id |-> InMemoryID, err |-> FALSE]

\* A store whose write can fail (fault): it then stores nothing and returns an
\* error; otherwise it stores as the stub does.
FailingStoreTicket(ts, ticket, fault) ==
    IF fault THEN [tickets |-> ts, id |-> 0, err |-> TRUE]
    ELSE StubStoreTicket(ts, ticket)

\* KitchenStore.GetTicketByID, dispatched on the implementation
GetTicketByID(k, ticketID) ==
    IF k.impl = "InMemoryKitchenStore" THEN InMemoryGetTicketByID(k.tickets, ticketID)
    ELSE StubGetTicketByID(k.tickets, ticketID)

\* KitchenStore.StoreTicket, dispatched on the implementation
StoreTicket(k, ticket, fault) ==
    CASE k.impl = "InMemoryKitchenStore" -> InMemoryStoreTicket(k.tickets, ticket)
      [] k.impl = "FailingStore" -> FailingStoreTicket(k.tickets, ticket, fault)
      [] OTHER -> StubStoreTicket(k.tickets, ticket)

(***************************************************************************)
(* http.ResponseWriter.                                                    *)
(***************************************************************************)
\* a ResponseWriter nothing was written to
NewResponse == [written |-> FALSE, status |-> 0, hasBody |-> FALSE, body |-> NoBody]

WriteHeader(w, code) == [w EXCEPT !.written = TRUE, !.status = code]

Write(w, body) == [w EXCEPT !.hasBody = TRUE, !.body = body]

NoCalls == [get |-> 0, store |-> 0]

NoStore == [tickets |-> <<>>, id |-> 0, err |-> FALSE]

(***************************************************************************)
(* The handler (server.go).  Each operator returns what the handler wrote  *)
(* (resp), the tickets the store is left with, the store operations it     *)
(* invoked (calls) and the result of StoreTicket when it was invoked.      *)
(***************************************************************************)
isTicketValid(ticket) == ~ticket.Items.nil

\* getTicketFromRequestBody without d.DisallowUnknownFields()
getTicketFromRequestBody_Lenient(body) ==
    LET d == DecodeTicket(body, FALSE)
    IN IF d.err \/ ~isTicketValid(d.ticket) THEN [ticket |-> ZeroTicket, err |-> TRUE]
       ELSE [ticket |-> d.ticket, err |-> FALSE]

getTicketFromRequestBody(body) ==
    LET d == DecodeTicket(body, TRUE)
    IN IF d.err THEN [ticket |-> ZeroTicket, err |-> TRUE]
       ELSE IF ~isTicketValid(d.ticket) THEN [ticket |-> ZeroTicket, err |-> TRUE]
       ELSE [ticket |-> d.ticket, err |-> FALSE]

\* getTicket that goes on to the lookup when Atoi failed
getTicket_IgnoresParseError(k, r) ==
    LET parsed == Atoi(TrimPrefix(r.path))
        got == GetTicketByID(k, parsed.val)
    IN IF got.err
       THEN [resp |-> WriteHeader(NewResponse, StatusNotFound),
             tickets |-> k.tickets, calls |-> [NoCalls EXCEPT !.get = 1],
             stored |-> NoStore]
       ELSE [resp |-> Write(WriteHeader(NewResponse, StatusOK), EncodeTicket(got.ticket)),
             tickets |-> k.tickets, calls |-> [NoCalls EXCEPT !.get = 1],
             stored |-> NoStore]

\* getTicket that encodes a fresh Ticket{} instead of the ticket it fetched
getTicket_EncodesZeroTicket(k, r) ==
    LET parsed == Atoi(TrimPrefix(r.path))
        got == GetTicketByID(k, parsed.val)
    IN IF parsed.err
       THEN [resp |-> WriteHeader(NewResponse, StatusBadRequest),
             tickets |-> k.tickets, calls |-> NoCalls, stored |-> NoStore]
       ELSE IF got.err
       THEN [resp |-> WriteHeader(NewResponse, StatusNotFound),
             tickets |-> k.tickets, calls |-> [NoCalls EXCEPT !.get = 1],
             stored |-> NoStore]
       ELSE [resp |-> Write(WriteHeader(NewResponse, StatusOK), EncodeTicket(ZeroTicket)),
             tickets |-> k.tickets, calls |-> [NoCalls EXCEPT !.get = 1],
             stored |-> NoStore]

getTicket(k, r) ==
    LET stringID == TrimPrefix(r.path)
        parsed == Atoi(stringID)
        got == GetTicketByID(k, parsed.val)
    IN IF parsed.err
       THEN [resp |-> WriteHeader(NewResponse, StatusBadRequest),
             tickets |-> k.tickets, calls |-> NoCalls, stored |-> NoStore]
       ELSE IF got.err
       THEN [resp |-> WriteHeader(NewResponse, StatusNotFound),
             tickets |-> k.tickets, calls |-> [NoCalls EXCEPT !.get = 1],
             stored |-> NoStore]
       ELSE [resp |-> Write(WriteHeader(NewResponse, StatusOK), EncodeTicket(got.ticket)),
             tickets |-> k.tickets, calls |-> [NoCalls EXCEPT !.get = 1],
             stored |-> NoStore]

\* createTicket that answers with the ID decoded from the request body
createTicket_ReturnsClientID(k, r) ==
    LET decoded == getTicketFromRequestBody(r.body)
        ticket == [decoded.ticket EXCEPT !.Status = STATUS_PENDING]
        st == StoreTicket(k, ticket, r.fault)
    IN IF decoded.err
       THEN [resp |-> WriteHeader(NewResponse, StatusBadRequest),
             tickets |-> k.tickets, calls |-> NoCalls, stored |-> NoStore]
       ELSE IF st.err
       THEN [resp |-> WriteHeader(NewResponse, StatusBadRequest),
             tickets |-> st.tickets, calls |-> [NoCalls EXCEPT !.store = 1],
             stored |-> st]
       ELSE [resp |-> Write(WriteHeader(NewResponse, StatusAccepted),
                            EncodeCreateTicketResponse(CreateTicketResponse(ticket.ID))),
             tickets |-> st.tickets, calls |-> [NoCalls EXCEPT !.store = 1],
             stored |-> st]

\* createTicket that does not look at the error StoreTicket returned
createTicket_IgnoresStoreError(k, r) ==
    LET decoded == getTicketFromRequestBody(r.body)
        ticket == [decoded.ticket EXCEPT !.Status = STATUS_PENDING]
        st == StoreTicket(k, ticket, r.fault)
    IN IF decoded.err
       THEN [resp |-> WriteHeader(NewResponse, StatusBadRequest),
             tickets |-> k.tickets, calls |-> NoCalls, stored |-> NoStore]
       ELSE [resp |-> Write(WriteHeader(NewResponse, StatusAccepted),
                            EncodeCreateTicketResponse(CreateTicketResponse(st.id))),
             tickets |-> st.tickets, calls |-> [NoCalls EXCEPT !.store = 1],
             stored |-> st]

createTicket(k, r) ==
    LET decoded == getTicketFromRequestBody(r.body)
        ticket == [decoded.ticket EXCEPT !.Status = STATUS_PENDING]
        st == StoreTicket(k, ticket, r.fault)
    IN IF decoded.err
       THEN [resp |-> WriteHeader(NewResponse, StatusBadRequest),
             tickets |-> k.tickets, calls |-> NoCalls, stored |-> NoStore]
       ELSE IF st.err
       THEN [resp |-> WriteHeader(NewResponse, StatusBadRequest),
             tickets |-> st.tickets, calls |-> [NoCalls EXCEPT !.store = 1],
             stored |-> st]
       ELSE [resp |-> Write(WriteHeader(NewResponse, StatusAccepted),
                            EncodeCreateTicketResponse(CreateTicketResponse(st.id))),
             tickets |-> st.tickets, calls |-> [NoCalls EXCEPT !.store = 1],
             stored |-> st]

\* ServeHTTP with a default case answering 405 Method Not Allowed
ServeHTTP_DefaultCase(k, r) ==
    CASE r.method = "GET" -> getTicket(k, r)
      [] r.method = "POST" -> createTicket(k, r)
      [] OTHER -> [resp |-> WriteHeader(NewResponse, 405), tickets |-> k.tickets,
                   calls |-> NoCalls, stored |-> NoStore]

ServeHTTP(k, r) ==
    CASE r.method = "GET" -> getTicket(k, r)
      [] r.method = "POST" -> createTicket(k, r)
      [] OTHER -> [resp |-> NewResponse, tickets |-> k.tickets,
                   calls |-> NoCalls, stored |-> NoStore]

(***************************************************************************)
(* The requests the model sends.                                           *)
(***************************************************************************)
\* a member that the object does not carry
Absent == [t |-> "absent", n |-> 0, s |-> "", a |-> <<>>]

Member(key, v) == IF v = Absent THEN NoMembers ELSE (key :> v)

\* a request body whose first JSON value is the object with these members
Object(id, st, it, lower, text, trailing) ==
    [syntax |-> TRUE, top |-> "object", trailing |-> trailing,
     members |-> Member("ID", id) @@ Member("Status", st) @@ Member("Items", it)
                   @@ Member("items", lower) @@ Member("text", text)]

\* a request body whose first JSON value is null, a number, a string or an array
Scalar(top, trailing) ==
    [syntax |-> TRUE, top |-> top, trailing |-> trailing, members |-> NoMembers]

\* a request body with a syntax error in its first JSON value
Malformed ==
    [syntax |-> FALSE, top |-> "garbage", trailing |-> FALSE, members |-> NoMembers]

ItemElems == {JStr("burger"), JNum(7)}

ItemArrays == {JArr(a) : a \in UNION {[1..n -> ItemElems] : n \in 0..MaxItems}}

\* the bodies POSTed while the store evolves
PostBodies ==
    {Object(id, st, it, Absent, Absent, FALSE) :
        id \in {Absent, JNum(7)},
        st \in {Absent, JNum(STATUS_COMPLETED)},
        it \in {Absent, JNull} \cup ItemArrays}
    \cup {Object(Absent, Absent, Absent, Absent, JStr("this is an invalid ticket JSON"), FALSE),
          Malformed}

\* the bodies the decoding of a POST is checked on
Bodies ==
    {Object(id, st, it, Absent, text, trailing) :
        id \in {Absent, JNum(7), JNull, JStr("7")},
        st \in {Absent, JNum(STATUS_COMPLETED), JFrac},
        it \in {Absent, JNull, JNum(7), JStr("burger"), JArr(<<JNull>>)} \cup ItemArrays,
        text \in {Absent, JStr("this is an invalid ticket JSON")},
        trailing \in BOOLEAN}
    \cup {Object(id, Absent, Absent, JArr(<<JStr("burger")>>), Absent, trailing) :
            id \in {Absent, JNum(7)}, trailing \in BOOLEAN}
    \cup {Scalar(top, trailing) :
            top \in {"null", "number", "string", "array"}, trailing \in BOOLEAN}
    \cup {Malformed, NoBody}

PathTokens == {"/ticket/", "1", "2", "-", "a"}

Paths == UNION {[1..n -> PathTokens] : n \in 0..MaxPathLen}

OtherMethods == {"PUT", "DELETE"}

Request(method, path, body, fault) ==
    [method |-> method, path |-> path, body |-> body, fault |-> fault]

(***************************************************************************)
(* The stores a server is constructed with.                                *)
(***************************************************************************)
\* the store of TestGETTicket
SeedTest ==
    <<Ticket(1, STATUS_ACCEPTED, Slice(<<"burger", "fries">>)),
      Ticket(2, STATUS_PENDING, Slice(<<"pizza", "water">>))>>

\* a store holding one ticket whose Items is nil
SeedNil == <<Ticket(2, STATUS_COMPLETED, NilSlice)>>

Seeds == {<<>>, SeedTest, SeedNil}

Impls == {"StubKitchenStore", "InMemoryKitchenStore"}

(***************************************************************************)
(* The state machine.                                                      *)
(***************************************************************************)
InitWith(impls) ==
    /\ impl \in impls
    /\ tickets \in (IF impl = "InMemoryKitchenStore" THEN {<<>>} ELSE Seeds)
    /\ req = Request("", <<>>, NoBody, FALSE)
    /\ resp = NewResponse
    /\ calls = NoCalls
    /\ assigned = <<>>
    /\ before = tickets

Init == InitWith(Impls)

\* The server handles request r to completion: what ServeHTTP leaves behind.
\* ok caps the number of tickets stored in one run.
Served(r) ==
    LET out == ServeHTTP([impl |-> impl, tickets |-> tickets], r)
        didStore == out.calls.store = 1 /\ ~out.stored.err
    IN [ok |-> didStore => Len(assigned) < MaxPosts,
        tickets |-> out.tickets,
        resp |-> out.resp,
        calls |-> out.calls,
        assigned |-> IF didStore THEN Append(assigned, out.stored.id) ELSE assigned]

\* the state after request r was served with outcome s
Respond(r, s) ==
    /\ s.ok
    /\ tickets' = s.tickets /\ resp' = s.resp /\ calls' = s.calls
    /\ assigned' = s.assigned /\ req' = r /\ before' = tickets
    /\ UNCHANGED impl

Get ==
    \E path \in Paths :
      LET r == Request("GET", path, NoBody, FALSE)
          s == Served(r)
      IN Respond(r, s)

Post ==
    \E body \in PostBodies :
      LET r == Request("POST", <<"/ticket/">>, body, FALSE)
          s == Served(r)
      IN Respond(r, s)

Other ==
    \E method \in OtherMethods :
      LET r == Request(method, <<"/ticket/">>, NoBody, FALSE)
          s == Served(r)
      IN Respond(r, s)

Next == Get \/ Post \/ Other

Spec == Init /\ [][Next]_vars

\* one POST of any body of Bodies to a freshly constructed server
PostOnce ==
    /\ req.method = ""
    /\ \E body \in Bodies :
         LET r == Request("POST", <<"/ticket/">>, body, FALSE)
             s == Served(r)
         IN Respond(r, s)

SpecDecode == Init /\ [][PostOnce]_vars

\* a POST during which the store's write fails
PostStoreFails ==
    /\ impl = "FailingStore"
    /\ \E body \in PostBodies :
         LET r == Request("POST", <<"/ticket/">>, body, TRUE)
             s == Served(r)
         IN Respond(r, s)

InitFailure == InitWith(Impls \cup {"FailingStore"})

NextFailure == Get \/ Post \/ Other \/ PostStoreFails

SpecFailure == InitFailure /\ [][NextFailure]_vars

(***************************************************************************)
(* Vocabulary of the properties.                                           *)
(***************************************************************************)
\* the IDs the store holds a ticket under
HeldIDs(ts) == {ts[i].ID : i \in 1..Len(ts)}

\* the tickets the store holds under id
TicketsWithID(ts, id) == {ts[i] : i \in {j \in 1..Len(ts) : ts[j].ID = id}}

\* the store the server was constructed with, as it is now
Store == [impl |-> impl, tickets |-> tickets]

\* the Items sequence a body carries under the name Items
PostedItems(body) ==
    LET a == body.members["Items"].a
    IN Slice([i \in 1..Len(a) |-> a[i].s])

\* the body carries a member that is no field of Ticket
HasUnknownField(body) == \E k \in DOMAIN body.members : FieldOf(k) = ""

\* the body carries no Items member, or a null one
ItemsAbsentOrNull(body) ==
    \A k \in DOMAIN body.members : FieldOf(k) = "Items" => body.members[k] = JNull

\* a member of the body has a JSON type its field cannot take
HasWrongType(body) ==
    \E k \in DOMAIN body.members :
       LET v == body.members[k]
       IN \/ FieldOf(k) \in {"ID", "Status"} /\ v.t \notin {"num", "null"}
          \/ /\ FieldOf(k) = "Items"
             /\ \/ v.t \notin {"arr", "null"}
                \/ \E i \in 1..Len(v.a) : v.a[i].t \notin {"str", "null"}

\* the body decodes to a ticket whose Items is not nil
DecodesWithItems(body) ==
    /\ body.syntax
    /\ body.top = "object"
    /\ ~HasUnknownField(body)
    /\ ~HasWrongType(body)
    /\ ~ItemsAbsentOrNull(body)

\* the handler answered 400 with no body, never called StoreTicket and left
\* the store as it was
Rejected ==
    /\ resp.written /\ resp.status = StatusBadRequest /\ ~resp.hasBody
    /\ calls.store = 0
    /\ tickets = before

\* the write of the last request's StoreTicket failed
StoreFailed == impl = "FailingStore" /\ req.fault /\ calls.store = 1

(***************************************************************************)
(* The properties.                                                         *)
(***************************************************************************)
\* C1: after a POST answered 202, fetching the returned ID from the store
\* yields the new ticket: that ID, Status PENDING, the posted Items.
C1_CreatedTicketIsFetchable ==
    (req.method = "POST" /\ resp.status = StatusAccepted) =>
       LET id == DecodeCreateTicketResponse(resp.body)
           fetched == GetTicketByID(Store, id)
       IN /\ ~fetched.err
          /\ fetched.ticket = Ticket(id, STATUS_PENDING, PostedItems(req.body))

\* C2: no two tickets of the store share an ID, and every ID StoreTicket
\* returns is greater than all it returned before.
C2_IDsUniqueAndIncreasing ==
    /\ \A i, j \in 1..Len(tickets) : i # j => tickets[i].ID # tickets[j].ID
    /\ \A i, j \in 1..Len(assigned) : i < j => assigned[i] < assigned[j]

\* C3: a GET of /ticket/{id} for an ID the store holds a ticket under answers
\* 200 with a body that decodes to a ticket the store holds under that ID.
C3_GetReturnsStoredTicket ==
    \A id \in HeldIDs(tickets) :
       (req.method = "GET" /\ req.path = newGetTicketRequest(id)) =>
          /\ resp.status = StatusOK
          /\ resp.hasBody
          /\ getTicketFromResponse(resp.body) \in TicketsWithID(tickets, id)

\* C3 witness: the ticket with nil Items was fetched and came back with nil Items
C3_Witness ==
    /\ req.method = "GET"
    /\ \E id \in HeldIDs(tickets) : req.path = newGetTicketRequest(id)
    /\ resp.status = StatusOK
    /\ getTicketFromResponse(resp.body).Items = NilSlice
    /\ assigned # <<>>

\* C4: a GET whose path names an integer the store holds no ticket under
\* answers 404 with no body.
C4_GetAbsentIsNotFound ==
    LET parsed == Atoi(TrimPrefix(req.path))
    IN (req.method = "GET" /\ ~parsed.err /\ parsed.val \notin HeldIDs(tickets)) =>
          /\ resp.status = StatusNotFound
          /\ ~resp.hasBody

\* C5: a POST whose body decodes to a ticket with non-nil Items is answered
\* 202 with the body {"ID": n}, n the ID StoreTicket returned for it.
C5_ValidPostAccepted ==
    (req.method = "POST" /\ DecodesWithItems(req.body)) =>
       /\ resp.written /\ resp.status = StatusAccepted /\ resp.hasBody
       /\ calls.store = 1
       /\ assigned # <<>>
       /\ resp.body.syntax /\ resp.body.top = "object"
       /\ DOMAIN resp.body.members = {"ID"}
       /\ resp.body.members["ID"] = JNum(assigned[Len(assigned)])

\* C5 witness: a POST carrying a client ID and Status was answered with the
\* store's ID, which differs from the client's
C5_Witness ==
    /\ req.method = "POST"
    /\ DecodesWithItems(req.body)
    /\ "ID" \in DOMAIN req.body.members
    /\ "Status" \in DOMAIN req.body.members
    /\ resp.status = StatusAccepted
    /\ resp.body.members["ID"] # req.body.members["ID"]

C7_BadPathIsBadRequest ==
    (req.method = "GET" /\ Atoi(TrimPrefix(req.path)).err) =>
       /\ resp.written /\ resp.status = StatusBadRequest /\ ~resp.hasBody
       /\ calls = NoCalls

\* C7 witness: GET /ticket/a on a store that holds tickets
C7_Witness ==
    /\ req.method = "GET"
    /\ req.path = <<"/ticket/", "a">>
    /\ tickets # <<>>
    /\ resp.status = StatusBadRequest

\* C8: when StoreTicket fails during a create, the handler answers 400 with
\* no body, so no 202 and no ID.
C8_StoreFailureIsBadRequest ==
    (req.method = "POST" /\ StoreFailed) =>
       /\ resp.written /\ resp.status = StatusBadRequest
       /\ ~resp.hasBody

\* C8 witness: a well-formed POST whose write failed
C8_Witness ==
    /\ req.method = "POST"
    /\ StoreFailed
    /\ DecodesWithItems(req.body)
    /\ resp.status = StatusBadRequest

\* C9: a request of another method than GET and POST gets no status and no
\* body, invokes no store operation and leaves the store as it was.
C9_OtherMethodDropped ==
    req.method \in OtherMethods =>
       /\ resp = NewResponse
       /\ calls = NoCalls
       /\ tickets = before

\* C9 witness: a DELETE served by a store that holds tickets
C9_Witness ==
    /\ req.method = "DELETE"
    /\ tickets # <<>>
    /\ ~resp.written

\* C10: a request never changes or removes a ticket the store held; a GET, a
\* request of another method and a rejected POST leave the store as it was;
\* a POST answered 202 adds exactly one ticket.
C10_TicketsOnlyAdded ==
    /\ Len(before) <= Len(tickets)
    /\ \A i \in 1..Len(before) : tickets[i] = before[i]
    /\ (req.method # "POST" \/ resp.status # StatusAccepted) => tickets = before
    /\ (req.method = "POST" /\ resp.status = StatusAccepted) =>
          Len(tickets) = Len(before) + 1

====
